---- MODULE Spec2Model ----
(***************************************************************************)
(* Model of src/src/main.rs: a command-line program that creates, fills,   *)
(* lists and clears the table users(id INTEGER PRIMARY KEY, name TEXT NOT  *)
(* NULL UNIQUE) of test.db.  Insert round-robins a dataset over n_workers  *)
(* tokio tasks that share one tokio_rusqlite connection (a channel feeding *)
(* one thread that owns the physical connection).  A behaviour is a        *)
(* sequence of invocations of the program; the database file persists      *)
(* from one invocation to the next.                                        *)
(***************************************************************************)
EXTENDS Integers, Sequences, FiniteSets, TLC

\* ---------------------------------------------------------------- bounds
\* longest dataset create_users may produce in the model (10_000 in the code)
MaxLen == 2
\* largest value of --workers
MaxWorkers == 2
\* bounds of the specification of the partitioning step alone
PMaxLen == 4
PMaxWorkers == 5

\* the names generate_name can return in Spec / in PartitionSpec
Names == {"a", "b", "c"}
PNames == {"a", "b", "c", "d", "e"}

\* id of the connection DB::new opens; the callers of a connection are main
\* (0) and the workers (1..n_workers)
MainConn == 0
Main == 0
ConnIds == 0..MaxWorkers
Callers == 0..MaxWorkers
Commands == {"Insert", "Select", "Delete"}

VARIABLES
    pc,           \* position of main / run_insertion
    command,      \* cli.command
    n_workers,    \* cli.workers
    users,        \* the dataset, Vec<User>
    batch_users,  \* run_insertion: Vec<Vec<User>>
    handles,      \* run_insertion: number of JoinHandles pushed
    joined,       \* run_insertion: number of handles awaited with Ok(Ok(()))
    worker,       \* the spawned tasks: [st, users, i, conn, res]
    queue,        \* per connection: the calls sent and not yet received
    executing,    \* per connection: the call its thread is running
    changes,      \* per connection: sqlite3_changes()
    reply,        \* per caller: the answer of the call it awaits
    tableExists,  \* test.db holds the table users
    table,        \* the rows of users
    stdout,       \* lines printed by this invocation
    selected,     \* <<rows>> once main printed the result of select_all_users
    ri_result,    \* what run_insertion returned: "none", "ok", "err"
    main_result,  \* what main returned: "none", "ok", "err" (exit 0 / non-zero)
    main_error,   \* the error main returned: its kind and, for a task, the worker
    attempts,     \* history: the insert calls executed in this invocation
    table0        \* history: the rows at the start of this invocation

vars == <<pc, command, n_workers, users, batch_users, handles, joined, worker,
          queue, executing, changes, reply, tableExists, table, stdout,
          selected, ri_result, main_result, main_error, attempts, table0>>

dbVars == <<tableExists, table>>
cliVars == <<command, n_workers>>
riVars == <<batch_users, handles, joined, ri_result>>
connVars == <<queue, executing, changes>>
histVars == <<attempts, table0>>
mainVars == <<main_result, main_error>>

\* ------------------------------------------------------------ data model
NoCall == [from |-> -1, stmt |-> "none", name |-> "", i |-> 0]
NoReply == [kind |-> "none", rows |-> {}]
OkReply == [kind |-> "ok", rows |-> {}]
ErrReply(e) == [kind |-> e, rows |-> {}]
NoError == [kind |-> "none", w |-> 0]
Error(kind, w) == [kind |-> kind, w |-> w]
IdleWorker == [st |-> "idle", users |-> <<>>, i |-> 1, conn |-> MainConn, res |-> "none"]

SeqsUpTo(S, n) == UNION {[1..k -> S] : k \in 0..n}
Range(s) == {s[k] : k \in 1..Len(s)}
MaxOf(S) == CHOOSE x \in S : \A y \in S : y <= x

\* ------------------------------------------------- the store (SQLite)
\* rowid of a new row of a table with INTEGER PRIMARY KEY: one more than the
\* largest rowid in the table.
NextRowidFirst(t) == 1
NextRowid(t) == IF t = {} THEN 1 ELSE MaxOf({r.id : r \in t}) + 1

\* name TEXT NOT NULL UNIQUE
ViolatesUniqueNever(t, name) == FALSE
ViolatesUnique(t, name) == \E r \in t : r.name = name

\* INSERT INTO users (name) VALUES (?1)
InsertRow(t, name) == t \cup {[id |-> NextRowid(t), name |-> name]}

\* ---------------------------------------------------------- partitioning
\* Iterator::skip(k)
Skip(s, k) == IF k >= Len(s) THEN <<>> ELSE SubSeq(s, k + 1, Len(s))

\* Iterator::step_by(n): the first element, then every n-th after it
RECURSIVE StepBy(_, _)
StepBy(s, n) == IF s = <<>> THEN <<>> ELSE <<Head(s)>> \o StepBy(Skip(s, n), n)

\* a contiguous-block split, as chunks() would give
BatchUsersChunks(us, n) ==
    [w \in 1..n |-> SubSeq(us, (w - 1) * ((Len(us) + n - 1) \div n) + 1,
                           IF w * ((Len(us) + n - 1) \div n) < Len(us)
                           THEN w * ((Len(us) + n - 1) \div n) ELSE Len(us))]
\* skip(offset + 1) instead of skip(offset)
BatchUsersOffByOne(us, n) == [w \in 1..n |-> StepBy(Skip(us, w), n)]

\* (0..n_workers).map(|offset| users.iter().cloned().skip(offset).step_by(n_workers).collect())
BatchUsers(us, n) == [w \in 1..n |-> StepBy(Skip(us, w - 1), n)]

\* -------------------------------------------------------- worker helpers
\* connection.clone(): the handle a worker is given
WorkerConnOwn(db, w) == w
WorkerConn(db, w) == db

\* `if let Ok(_) = connection.insert(user).await { println!(..) }`: an Err
\* falls through to the next item; the task goes on.
InsertEscalatesAsTry(kind) == kind # "ok"
InsertEscalates(kind) == FALSE

\* handle.await??: Err(JoinError) for a task that panicked, else the task's
\* own result
JoinOutcomeIgnoring(wk) == "ok"
JoinOutcome(wk) == IF wk.st = "panicked" THEN "err" ELSE wk.res

\* ------------------------------------------------------------------ Init
Init ==
    /\ pc = "start"
    /\ command = "Insert"
    /\ n_workers = 0
    /\ users = <<>>
    /\ batch_users = <<>>
    /\ handles = 0
    /\ joined = 0
    /\ worker = [w \in 1..MaxWorkers |-> IdleWorker]
    /\ queue = [c \in ConnIds |-> <<>>]
    /\ executing = [c \in ConnIds |-> NoCall]
    /\ changes = [c \in ConnIds |-> 0]
    /\ reply = [c \in Callers |-> NoReply]
    /\ tableExists = FALSE
    /\ table = {}
    /\ stdout = {}
    /\ selected = <<>>
    /\ ri_result = "none"
    /\ main_result = "none"
    /\ main_error = NoError
    /\ attempts = {}
    /\ table0 = {}

\* ------------------------------------------------------------------ main
\* Connection::call: send the closure to the connection's thread
Call(c, from, stmt, name, i) ==
    queue' = [queue EXCEPT ![c] = Append(@, [from |-> from, stmt |-> stmt, name |-> name, i |-> i])]

\* Args::parse(); DB::new("test.db").await.map_err(..)?
MainOpen ==
    /\ pc = "start"
    /\ \E cmd \in Commands, n \in 0..MaxWorkers, ok \in BOOLEAN :
        /\ command' = cmd
        /\ n_workers' = n
        /\ IF ok
           THEN /\ pc' = "create_table"
                /\ UNCHANGED mainVars
           ELSE /\ pc' = "returned"
                /\ main_result' = "err"
                /\ main_error' = Error("open", 0)
    /\ UNCHANGED <<users, riVars, worker, connVars, reply, dbVars, stdout,
                   selected, histVars>>

\* db.create_table(): self.conn.call(..)
MainCreateTable ==
    /\ pc = "create_table"
    /\ Call(MainConn, Main, "create", "", 0)
    /\ pc' = "create_table_await"
    /\ UNCHANGED <<cliVars, users, riVars, worker, executing, changes, reply,
                   dbVars, stdout, selected, mainVars, histVars>>

\* the ? after db.create_table().await: an Err ends main
CreateTableFatalNever(kind) == FALSE
CreateTableFatal(kind) == kind # "ok"

\* db.create_table().await?
MainCreateTableDone ==
    /\ pc = "create_table_await"
    /\ reply[Main] # NoReply
    /\ reply' = [reply EXCEPT ![Main] = NoReply]
    /\ IF CreateTableFatal(reply[Main].kind)
       THEN /\ pc' = "returned"
            /\ main_result' = "err"
            /\ main_error' = Error("schema", 0)
       ELSE /\ pc' = "create_users"
            /\ UNCHANGED mainVars
    /\ UNCHANGED <<cliVars, users, riVars, worker, connVars, dbVars, stdout,
                   selected, histVars>>

\* let names = create_users(); let users = ...
MainCreateUsers ==
    /\ pc = "create_users"
    /\ \E ds \in SeqsUpTo(Names, MaxLen) : users' = ds
    /\ pc' = "match"
    /\ UNCHANGED <<cliVars, riVars, worker, connVars, reply, dbVars, stdout,
                   selected, mainVars, histVars>>

\* match cli.command { Insert => run_insertion(db, users, workers) ..
MainMatchInsert ==
    /\ pc = "match"
    /\ command = "Insert"
    /\ pc' = "partition"
    /\ UNCHANGED <<cliVars, users, riVars, worker, connVars, reply, dbVars,
                   stdout, selected, mainVars, histVars>>

\* Select => db.select_all_users() / Delete => db.delete_all_users()
MainMatchCall ==
    /\ pc = "match"
    /\ command # "Insert"
    /\ Call(MainConn, Main, IF command = "Select" THEN "select" ELSE "delete", "", 0)
    /\ pc' = "call_await"
    /\ UNCHANGED <<cliVars, users, riVars, worker, executing, changes, reply,
                   dbVars, stdout, selected, mainVars, histVars>>

\* .await?; println!("{:#?}", users) for Select; Ok(())
MainCallDone ==
    /\ pc = "call_await"
    /\ reply[Main] # NoReply
    /\ reply' = [reply EXCEPT ![Main] = NoReply]
    /\ pc' = "returned"
    /\ main_result' = IF reply[Main].kind = "ok" THEN "ok" ELSE "err"
    /\ main_error' = IF reply[Main].kind = "ok" THEN NoError ELSE Error(reply[Main].kind, 0)
    /\ selected' = IF command = "Select" /\ reply[Main].kind = "ok"
                   THEN <<reply[Main].rows>> ELSE selected
    /\ UNCHANGED <<cliVars, users, riVars, worker, connVars, dbVars, stdout,
                   histVars>>

\* --------------------------------------------------------- run_insertion
\* let batch_users = (0..n_workers).map(..).collect()
RunInsertionPartition ==
    /\ pc = "partition"
    /\ batch_users' = BatchUsers(users, n_workers)
    /\ pc' = "spawn"
    /\ UNCHANGED <<cliVars, users, handles, joined, ri_result, worker, connVars,
                   reply, dbVars, stdout, selected, mainVars, histVars>>

\* for worker in 1..=n_workers { handles.push(tokio::task::spawn(batch_insertion(..))) }
RunInsertionSpawn ==
    /\ pc = "spawn"
    /\ IF handles < n_workers
       THEN /\ worker' = [worker EXCEPT ![handles + 1] =
                            [st |-> "loop", users |-> batch_users[handles + 1], i |-> 1,
                             conn |-> WorkerConn(MainConn, handles + 1), res |-> "none"]]
            /\ handles' = handles + 1
            /\ pc' = pc
       ELSE /\ pc' = "join"
            /\ UNCHANGED <<worker, handles>>
    /\ UNCHANGED <<cliVars, users, batch_users, joined, ri_result, connVars,
                   reply, dbVars, stdout, selected, mainVars, histVars>>

\* for handle in handles: the handles are awaited in the order they were
\* pushed, which is the order the workers were spawned in
NextHandleLast(done, pushed) == pushed - done
NextHandle(done, pushed) == done + 1

\* for handle in handles { handle.await??; } Ok(())  and, in main,
\* run_insertion(..).await?; Ok(())
RunInsertionJoin ==
    /\ pc = "join"
    /\ IF joined < handles
       THEN LET h == NextHandle(joined, handles) IN
            /\ worker[h].st \in {"done", "panicked"}
            /\ IF JoinOutcome(worker[h]) = "ok"
               THEN /\ joined' = joined + 1
                    /\ UNCHANGED <<pc, ri_result, mainVars>>
               ELSE /\ ri_result' = "err"
                    /\ main_result' = "err"
                    /\ main_error' = Error(IF worker[h].st = "panicked" THEN "task" ELSE "insert", h)
                    /\ pc' = "returned"
                    /\ UNCHANGED joined
       ELSE /\ ri_result' = "ok"
            /\ main_result' = "ok"
            /\ pc' = "returned"
            /\ UNCHANGED <<joined, main_error>>
    /\ UNCHANGED <<cliVars, users, batch_users, handles, worker, connVars,
                   reply, dbVars, stdout, selected, histVars>>

\* ------------------------------------------------------- batch_insertion
\* for user in users: the i-th turn of the loop takes the i-th item
NextUserReversed(us, i) == us[Len(us) + 1 - i]
NextUser(us, i) == us[i]

\* the loop after an insert that returned Err: on to the next item
AfterErrRetry(i) == i
AfterErr(i) == i + 1

\* for user in users { connection.insert(user) .. }  /  Ok(())
BatchInsertionNext(w) ==
    /\ worker[w].st = "loop"
    /\ IF worker[w].i <= Len(worker[w].users)
       THEN /\ Call(worker[w].conn, w, "insert", NextUser(worker[w].users, worker[w].i), worker[w].i)
            /\ worker' = [worker EXCEPT ![w].st = "await"]
       ELSE /\ worker' = [worker EXCEPT ![w].st = "done", ![w].res = "ok"]
            /\ UNCHANGED queue
    /\ UNCHANGED <<pc, cliVars, users, riVars, executing, changes, reply, dbVars,
                   stdout, selected, mainVars, histVars>>

\* .await returned Err: nothing is printed, the loop goes on
BatchInsertionErr(w) ==
    /\ worker[w].st = "await"
    /\ reply[w] \notin {NoReply, OkReply}
    /\ reply' = [reply EXCEPT ![w] = NoReply]
    /\ IF InsertEscalates(reply[w].kind)
       THEN worker' = [worker EXCEPT ![w].st = "done", ![w].res = "err"]
       ELSE worker' = [worker EXCEPT ![w].st = "loop", ![w].i = AfterErr(@)]
    /\ UNCHANGED <<pc, cliVars, users, riVars, connVars, dbVars, stdout,
                   selected, mainVars, histVars>>

\* .await returned Ok: println!("{} inserted: {:?}", ..), which panics when
\* the write to stdout fails
BatchInsertionOk(w) ==
    /\ worker[w].st = "await"
    /\ reply[w] = OkReply
    /\ reply' = [reply EXCEPT ![w] = NoReply]
    /\ \E written \in BOOLEAN :
        IF written
        THEN /\ stdout' = stdout \cup {[line |-> "inserted", w |-> w, arg |-> worker[w].i]}
             /\ worker' = [worker EXCEPT ![w].st = "loop", ![w].i = @ + 1]
        ELSE /\ worker' = [worker EXCEPT ![w].st = "panicked"]
             /\ UNCHANGED stdout
    /\ UNCHANGED <<pc, cliVars, users, riVars, connVars, dbVars, selected,
                   mainVars, histVars>>

\* ------------------------------------------ the connection's thread
\* the thread takes the next closure off its channel
ConnRecv(c) ==
    /\ executing[c] = NoCall
    /\ queue[c] # <<>>
    /\ executing' = [executing EXCEPT ![c] = Head(queue[c])]
    /\ queue' = [queue EXCEPT ![c] = Tail(@)]
    /\ UNCHANGED <<pc, cliVars, users, riVars, worker, changes, reply, dbVars,
                   stdout, selected, mainVars, histVars>>

\* rows of users after CREATE TABLE IF NOT EXISTS: an existing table is kept
CreateTableRowsFresh(exists, t) == {}
CreateTableRows(exists, t) == IF exists THEN t ELSE {}

\* create_table's closure: CREATE TABLE IF NOT EXISTS users (..); execute
\* returns sqlite3_changes(), which a CREATE TABLE leaves as it was
ExecCreate(c, call, fails) ==
    /\ IF fails
       THEN /\ reply' = [reply EXCEPT ![call.from] = ErrReply("storage")]
            /\ UNCHANGED <<tableExists, table, stdout>>
       ELSE /\ tableExists' = TRUE
            /\ table' = CreateTableRows(tableExists, table)
            /\ stdout' = stdout \cup
                 {[line |-> IF changes[c] > 0 THEN "Table created" ELSE "Table exists",
                   w |-> 0, arg |-> 0]}
            /\ reply' = [reply EXCEPT ![call.from] = OkReply]
    /\ UNCHANGED <<changes, attempts>>

\* insert's closure: INSERT INTO users (name) VALUES (?1)
ExecInsert(c, call, fails) ==
    /\ IF fails
       THEN /\ reply' = [reply EXCEPT ![call.from] = ErrReply("storage")]
            /\ attempts' = attempts \cup
                 {[w |-> call.from, i |-> call.i, name |-> call.name, kind |-> "storage"]}
            /\ UNCHANGED <<table, changes>>
       ELSE IF ViolatesUnique(table, call.name)
       THEN /\ reply' = [reply EXCEPT ![call.from] = ErrReply("constraint")]
            /\ attempts' = attempts \cup
                 {[w |-> call.from, i |-> call.i, name |-> call.name, kind |-> "constraint"]}
            /\ UNCHANGED <<table, changes>>
       ELSE /\ table' = InsertRow(table, call.name)
            /\ changes' = [changes EXCEPT ![c] = 1]
            /\ reply' = [reply EXCEPT ![call.from] = OkReply]
            /\ attempts' = attempts \cup
                 {[w |-> call.from, i |-> call.i, name |-> call.name, kind |-> "ok"]}
    /\ UNCHANGED <<tableExists, stdout>>

\* select_all_users' closure: SELECT * FROM users
ExecSelect(c, call, fails) ==
    /\ reply' = [reply EXCEPT ![call.from] =
                   IF fails THEN ErrReply("storage") ELSE [kind |-> "ok", rows |-> table]]
    /\ UNCHANGED <<tableExists, table, changes, stdout, attempts>>

\* rows left by DELETE FROM users
DeleteKeepsRows(t) == t
DeleteRows(t) == {}

\* delete_all_users' closure: DELETE FROM users; println!("Deleted {} rows", n_rows)
ExecDelete(c, call, fails) ==
    /\ IF fails
       THEN /\ reply' = [reply EXCEPT ![call.from] = ErrReply("storage")]
            /\ UNCHANGED <<table, changes, stdout>>
       ELSE /\ table' = DeleteRows(table)
            /\ changes' = [changes EXCEPT ![c] = Cardinality(table) - Cardinality(table')]
            /\ stdout' = stdout \cup
                 {[line |-> "Deleted rows", w |-> 0, arg |-> changes'[c]]}
            /\ reply' = [reply EXCEPT ![call.from] = OkReply]
    /\ UNCHANGED <<tableExists, attempts>>

\* the thread runs the closure on the connection and sends the result back;
\* any statement may fail with a storage error
ConnExec(c) ==
    /\ executing[c] # NoCall
    /\ \E fails \in BOOLEAN :
        LET call == executing[c] IN
        CASE call.stmt = "create" -> ExecCreate(c, call, fails)
          [] call.stmt = "insert" -> ExecInsert(c, call, fails)
          [] call.stmt = "select" -> ExecSelect(c, call, fails)
          [] call.stmt = "delete" -> ExecDelete(c, call, fails)
    /\ executing' = [executing EXCEPT ![c] = NoCall]
    /\ UNCHANGED <<pc, cliVars, users, riVars, worker, queue, selected,
                   mainVars, table0>>

\* ----------------------------------------------------- process lifetime
\* main has returned: the runtime is dropped, which drops the tasks still
\* running, and the process ends with the calls not yet executed.
ProcessExit ==
    /\ pc = "returned"
    /\ pc' = "exited"
    /\ worker' = [w \in 1..MaxWorkers |->
                    IF worker[w].st \in {"loop", "await"}
                    THEN [worker[w] EXCEPT !.st = "dropped"] ELSE worker[w]]
    /\ queue' = [c \in ConnIds |-> <<>>]
    /\ executing' = [c \in ConnIds |-> NoCall]
    /\ reply' = [c \in Callers |-> NoReply]
    /\ UNCHANGED <<cliVars, users, riVars, changes, dbVars, stdout, selected,
                   mainVars, histVars>>

\* the program is run again on the same test.db
NextInvocation ==
    /\ pc = "exited"
    /\ pc' = "start"
    /\ command' = "Insert"
    /\ n_workers' = 0
    /\ users' = <<>>
    /\ batch_users' = <<>>
    /\ handles' = 0
    /\ joined' = 0
    /\ worker' = [w \in 1..MaxWorkers |-> IdleWorker]
    /\ changes' = [c \in ConnIds |-> 0]
    /\ stdout' = {}
    /\ selected' = <<>>
    /\ ri_result' = "none"
    /\ main_result' = "none"
    /\ main_error' = NoError
    /\ attempts' = {}
    /\ table0' = table
    /\ UNCHANGED <<queue, executing, reply, dbVars>>

Next ==
    \/ MainOpen
    \/ MainCreateTable
    \/ MainCreateTableDone
    \/ MainCreateUsers
    \/ MainMatchInsert
    \/ MainMatchCall
    \/ MainCallDone
    \/ RunInsertionPartition
    \/ RunInsertionSpawn
    \/ RunInsertionJoin
    \/ \E w \in 1..MaxWorkers : BatchInsertionNext(w)
    \/ \E w \in 1..MaxWorkers : BatchInsertionErr(w)
    \/ \E w \in 1..MaxWorkers : BatchInsertionOk(w)
    \/ \E c \in ConnIds : ConnRecv(c)
    \/ \E c \in ConnIds : ConnExec(c)
    \/ ProcessExit
    \/ NextInvocation

Spec == Init /\ [][Next]_vars

\* Scheduling: the tokio runtime keeps polling main and every spawned task
\* that can go on, the thread of the one connection that is opened keeps
\* serving its channel, and a process whose main has returned exits.
MainStep ==
    \/ MainCreateTable
    \/ MainCreateTableDone
    \/ MainCreateUsers
    \/ MainMatchInsert
    \/ MainMatchCall
    \/ MainCallDone
    \/ RunInsertionPartition
    \/ RunInsertionSpawn
    \/ RunInsertionJoin
WorkerStep(w) == BatchInsertionNext(w) \/ BatchInsertionErr(w) \/ BatchInsertionOk(w)
ConnStep(c) == ConnRecv(c) \/ ConnExec(c)

\* a step of the running invocation
Progress ==
    \/ MainStep
    \/ \E w \in 1..MaxWorkers : WorkerStep(w)
    \/ ConnStep(MainConn)
    \/ ProcessExit

\* The fairness assumed is the weakest that scheduling gives: while some
\* step of the invocation can be taken, one is taken eventually.
FairSpec == Spec /\ WF_vars(Progress)

\* run_insertion's partitioning step on its own, for every dataset over
\* PNames of at most PMaxLen items and every worker count up to PMaxWorkers
PartitionInit ==
    /\ pc = "partition"
    /\ command = "Insert"
    /\ n_workers \in 0..PMaxWorkers
    /\ users \in SeqsUpTo(PNames, PMaxLen)
    /\ batch_users = <<>>
    /\ handles = 0
    /\ joined = 0
    /\ worker = [w \in 1..MaxWorkers |-> IdleWorker]
    /\ queue = [c \in ConnIds |-> <<>>]
    /\ executing = [c \in ConnIds |-> NoCall]
    /\ changes = [c \in ConnIds |-> 0]
    /\ reply = [c \in Callers |-> NoReply]
    /\ tableExists = TRUE
    /\ table = {}
    /\ stdout = {[line |-> "Table exists", w |-> 0, arg |-> 0]}
    /\ selected = <<>>
    /\ ri_result = "none"
    /\ main_result = "none"
    /\ main_error = NoError
    /\ attempts = {}
    /\ table0 = {}

PartitionSpec == PartitionInit /\ [][RunInsertionPartition]_vars

\* ================================================================ claims
NamesOf(t) == {r.name : r \in t}
Distinct(s) == \A j, k \in 1..Len(s) : s[j] = s[k] => j = k
Partitioned == pc \in {"spawn", "join"} \/ ri_result # "none"
Panicked == {w \in 1..MaxWorkers : worker[w].st = "panicked"}
AttemptsOf(name) == {a \in attempts : a.name = name}
NoStorageError == \A a \in attempts : a.kind # "storage"
Slots == {<<w, j>> \in (1..n_workers) \X (1..Len(users)) : j <= Len(batch_users[w])}
\* dataset position (1-based) of the j-th item of subset w (1-based)
StridePos(w, j) == w + (j - 1) * n_workers

\* C1: for n_workers >= 1 the subsets built by run_insertion are a partition
\* of the dataset: item j of subset w is the dataset item at position
\* w + (j-1)*n_workers (so each subset is ascending), and every dataset
\* position is held by exactly one item of exactly one subset.
C1_StridePartition ==
    (Partitioned /\ n_workers >= 1) =>
        /\ Len(batch_users) = n_workers
        /\ \A s \in Slots :
              /\ StridePos(s[1], s[2]) <= Len(users)
              /\ batch_users[s[1]][s[2]] = users[StridePos(s[1], s[2])]
        /\ \A p \in 1..Len(users) :
              Cardinality({s \in Slots : StridePos(s[1], s[2]) = p}) = 1

C1_Witness ==
    /\ Partitioned
    /\ n_workers = 3
    /\ Len(users) = 4
    /\ Distinct(users)
    /\ batch_users = <<(<<users[1], users[4]>>), (<<users[2]>>), (<<users[3]>>)>>

\* C2: when run_insertion has returned success with n_workers >= 1 for a
\* dataset of pairwise distinct names none of which was stored, and no insert
\* hit a storage error, the table holds every dataset name in exactly one row
\* besides the rows it had, and has grown by exactly the dataset size; a
\* select returns exactly the rows of the table.
C2_AllInserted ==
    /\ ( /\ ri_result = "ok"
         /\ n_workers >= 1
         /\ Distinct(users)
         /\ Range(users) \cap NamesOf(table0) = {}
         /\ NoStorageError )
       => /\ table0 \subseteq table
          /\ NamesOf(table) = NamesOf(table0) \cup Range(users)
          /\ \A k \in 1..Len(users) :
                Cardinality({r \in table : r.name = users[k]}) = 1
          /\ Cardinality(table) = Cardinality(table0) + Len(users)
    /\ selected # <<>> => selected[1] = table

C2_Witness ==
    /\ ri_result = "ok"
    /\ n_workers = 2
    /\ Len(users) = 2
    /\ Distinct(users)
    /\ table0 # {}
    /\ Range(users) \cap NamesOf(table0) = {}
    /\ NoStorageError
    /\ Cardinality(table) = 3

\* C3 as claimed: whenever the two insert attempts of a name occurring twice
\* in the dataset have been executed, one succeeded and the other failed with
\* a constraint error; and once run_insertion (n_workers >= 1) has returned
\* success on a table that was empty, the row count is the number of distinct
\* dataset names.
C3_AsClaimed ==
    /\ \A name \in Range(users) :
          (Cardinality({k \in 1..Len(users) : users[k] = name}) = 2
              /\ Cardinality(AttemptsOf(name)) = 2)
          => {a.kind : a \in AttemptsOf(name)} = {"ok", "constraint"}
    /\ (ri_result = "ok" /\ n_workers >= 1 /\ table0 = {})
          => Cardinality(table) = Cardinality(Range(users))

\* C3 amended: of the executed insert attempts of a name that was not stored
\* when the run began, none of which hit a storage error, exactly one
\* succeeded and every other failed with a constraint error; every attempted
\* name not hit by a storage error has exactly one row; and when
\* run_insertion (n_workers >= 1) has returned success on an initially empty
\* table with no storage error, the row count is the number of distinct
\* dataset names (size - 1 for one duplicate pair).
C3_OneRowPerName ==
    /\ \A name \in Names :
          LET A == AttemptsOf(name) IN
          (A # {} /\ \A a \in A : a.kind # "storage") =>
              /\ Cardinality({r \in table : r.name = name}) = 1
              /\ name \notin NamesOf(table0) =>
                    /\ Cardinality({a \in A : a.kind = "ok"}) = 1
                    /\ \A a \in A : a.kind \in {"ok", "constraint"}
              /\ name \in NamesOf(table0) => \A a \in A : a.kind = "constraint"
    /\ (ri_result = "ok" /\ n_workers >= 1 /\ table0 = {} /\ NoStorageError)
          => Cardinality(table) = Cardinality(Range(users))

C3_Witness ==
    /\ ri_result = "ok"
    /\ n_workers = 2
    /\ table0 = {}
    /\ Len(users) = 2
    /\ users[1] = users[2]
    /\ {a.kind : a \in attempts} = {"ok", "constraint"}
    /\ {a.w : a \in attempts} = {1, 2}
    /\ Cardinality(table) = 1

UniqueRows ==
    \A r1, r2 \in table : (r1.name = r2.name \/ r1.id = r2.id) => r1 = r2
NewRowsAbove ==
    \A r \in table' \ table : \A q \in table : r.id > q.id

\* C4: in every reachable state no two rows share a name and no two share an
\* id, and every step that adds a row gives it an id greater than every id
\* that was in the table.
C4_UniqueMonotonic == []UniqueRows /\ [][NewRowsAbove]_vars

C4_Witness ==
    /\ Cardinality(table) = 3
    /\ Cardinality(table0) = 1
    /\ Cardinality({a \in attempts : a.kind = "ok"}) = 2
    /\ {a.w : a \in attempts} = {1, 2}

Executing == {c \in ConnIds : executing[c] # NoCall}
WorkersShareConn ==
    \A w \in 1..MaxWorkers : worker[w].st # "idle" => worker[w].conn = MainConn
TableStepIsOneCall ==
    table' # table =>
        \E c \in Executing :
            /\ executing'[c] = NoCall
            /\ Executing = {c}
            /\ \/ /\ executing[c].stmt = "insert"
                  /\ executing[c].name \notin NamesOf(table)
                  /\ table' = InsertRow(table, executing[c].name)
               \/ /\ executing[c].stmt = "delete"
                  /\ table' = {}
\* C5: every spawned worker holds the connection main opened; at most one
\* call is being executed at any time; and every change of the table is the
\* effect of the one call being executed, applied as a whole.
C5_Serialised ==
    /\ [](Cardinality(Executing) <= 1 /\ WorkersShareConn)
    /\ [][TableStepIsOneCall]_vars

C5_Witness ==
    /\ executing[MainConn].stmt = "insert"
    /\ executing[MainConn].from = 2
    /\ Len(queue[MainConn]) = 1
    /\ queue[MainConn][1].from = 1
    /\ worker[1].st = "await"
    /\ worker[2].st = "await"

\* C6: a worker that ends its loop ends with success whatever its inserts
\* returned; run_insertion returns an error only if some worker panicked;
\* and when it returns success main returns success (exit 0).
C6_FailuresContained ==
    /\ \A w \in 1..MaxWorkers : worker[w].st = "done" => worker[w].res = "ok"
    /\ ri_result = "err" => Panicked # {}
    /\ ri_result = "ok" => main_result = "ok"

C6_Witness ==
    /\ pc = "exited"
    /\ ri_result = "ok"
    /\ main_result = "ok"
    /\ n_workers = 2
    /\ \E a \in attempts : a.kind = "constraint"
    /\ \E a \in attempts : a.kind = "storage"
    /\ \A w \in 1..2 : worker[w].st = "done" /\ worker[w].res = "ok"

\* C7: run_insertion never returns success when a worker has panicked: once
\* it has returned with a panicked worker, it returned an error and main
\* returned an error (non-zero exit).
C7_FaultSurfaced ==
    (ri_result # "none" /\ Panicked # {}) =>
        (ri_result = "err" /\ main_result = "err")

C7_Witness ==
    /\ pc = "exited"
    /\ ri_result = "err"
    /\ main_result = "err"
    /\ worker[1].st = "done"
    /\ worker[2].st = "panicked"

\* C8 as claimed: when run_insertion has returned, every spawned worker has
\* terminated (none is still running or has items it did not attempt).
C8_AsClaimed ==
    (pc = "returned" /\ ri_result # "none") =>
        \A w \in 1..n_workers : worker[w].st \in {"done", "panicked"}

DeleteExecuted ==
    \E c \in Executing :
        /\ executing[c].stmt = "delete"
        /\ reply'[executing[c].from].kind = "ok"
SelectExecuted ==
    \E c \in Executing :
        /\ executing[c].stmt = "select"
        /\ reply'[executing[c].from].kind = "ok"
\* C9: a delete_all_users call that is executed without a storage error
\* prints the number of rows the table held and leaves the table empty;
\* a select_all_users call executed without a storage error returns exactly
\* the rows of the table, hence none after a delete.
C9_DeleteAll ==
    /\ [][DeleteExecuted =>
            /\ table' = {}
            /\ [line |-> "Deleted rows", w |-> 0, arg |-> Cardinality(table)] \in stdout'
            /\ \A l \in stdout' : l.line = "Deleted rows" => l.arg = Cardinality(table)]_vars
    /\ [][SelectExecuted => reply'[Main].rows = table]_vars
    /\ []((command = "Delete" /\ main_result = "ok") => table = {})

C9_Witness ==
    /\ command = "Delete"
    /\ main_result = "ok"
    /\ Cardinality(table0) = 2
    /\ table = {}
    /\ [line |-> "Deleted rows", w |-> 0, arg |-> 2] \in stdout

CreateExecuted ==
    \E c \in Executing : executing[c].stmt = "create" /\ executing'[c] = NoCall
\* C10: a create_table call executed when the table exists leaves the table
\* and its rows as they are, and unless it hits a storage error it succeeds
\* and prints "Table exists".
C10_CreateIdempotent ==
    [][(CreateExecuted /\ tableExists) =>
          /\ tableExists'
          /\ table' = table
          /\ reply'[Main].kind \in {"ok", "storage"}
          /\ reply'[Main].kind = "ok" =>
                {l.line : l \in stdout'} = {"Table exists"}]_vars

C10_Witness ==
    /\ pc = "create_users"
    /\ tableExists
    /\ table0 # {}
    /\ table = table0
    /\ stdout = {[line |-> "Table exists", w |-> 0, arg |-> 0]}

Lines == {l.line : l \in stdout}
Issued == {executing[c] : c \in ConnIds} \cup UNION {Range(queue[c]) : c \in ConnIds}

\* C11 as claimed: a create_table call executed without error on a store that
\* lacks the table creates it and prints "Table created"; it prints "Table
\* exists" only when the table was there before the call.
C11_AsClaimed ==
    [][(CreateExecuted /\ reply'[Main].kind = "ok") =>
          /\ tableExists'
          /\ {l.line : l \in stdout'} = {IF tableExists THEN "Table exists" ELSE "Table created"}]_vars

StartupFailed == main_error.kind \in {"open", "schema"}
CreateFailed ==
    /\ pc = "create_table_await"
    /\ reply[Main].kind \notin {"none", "ok"}
    /\ pc' # pc
NothingDone ==
    /\ \A w \in 1..MaxWorkers : worker[w] = IdleWorker
    /\ handles = 0
    /\ attempts = {}
    /\ \A call \in Issued : call.stmt \in {"none", "create"}
    /\ selected = <<>>
    /\ Lines \subseteq {"Table exists", "Table created"}
    /\ table = table0

\* C12: main returns an error (non-zero exit) as soon as DB::new or
\* create_table fails; in every state after such a failure no worker was
\* spawned, no insert, select or delete call was issued or executed, and the
\* rows are those the invocation started with.
C12_StartupFatal ==
    /\ [][CreateFailed => (pc' = "returned" /\ main_error'.kind = "schema")]_vars
    /\ [](StartupFailed => (main_result = "err" /\ pc \in {"returned", "exited"} /\ NothingDone))

C12_Witness ==
    /\ main_error.kind = "schema"
    /\ pc = "exited"
    /\ command = "Insert"
    /\ n_workers = 2
    /\ table # {}

\* C13 as claimed: run_insertion called with n_workers = 0 never returns
\* success.
C13_AsClaimed ==
    (command = "Insert" /\ n_workers = 0) => ri_result # "ok"

AttemptedBy(w) == {a.i : a \in {b \in attempts : b.w = w}}
InsertsIssued == {call \in Issued : call.stmt = "insert"}

\* C14: every insert attempt is for an item of the issuing worker's subset;
\* no item is attempted twice, whatever its attempt returned, nor issued again
\* once attempted; a worker attempts its items in subset order (the attempted
\* items are all those before its current one, and at most the current one);
\* a worker that has ended has attempted every item of its subset; and when
\* run_insertion (n_workers >= 1) has returned success every dataset position
\* has received exactly one attempt.
C14_OneAttemptPerItem ==
    /\ \A a, b \in attempts : (a.w = b.w /\ a.i = b.i) => a = b
    /\ \A a \in attempts :
          /\ a.w \in 1..n_workers
          /\ a.i \in 1..Len(worker[a.w].users)
          /\ a.name = worker[a.w].users[a.i]
    /\ \A call \in InsertsIssued :
          /\ call.i = worker[call.from].i
          /\ call.i \notin AttemptedBy(call.from)
    /\ \A w \in 1..MaxWorkers :
          /\ 1..(worker[w].i - 1) \subseteq AttemptedBy(w)
          /\ AttemptedBy(w) \subseteq 1..worker[w].i
          /\ worker[w].st = "done" => AttemptedBy(w) = 1..Len(worker[w].users)
    /\ (ri_result = "ok" /\ n_workers >= 1) =>
          /\ Cardinality(attempts) = Len(users)
          /\ {StridePos(a.w, a.i) : a \in attempts} = 1..Len(users)

C14_Witness ==
    /\ ri_result = "ok"
    /\ n_workers = 1
    /\ Len(users) = 2
    /\ \E a, b \in attempts :
          /\ a.i = 1 /\ a.kind = "storage"
          /\ b.i = 2 /\ b.kind = "ok"
    /\ Cardinality(table) = Cardinality(table0) + 1

\* C15 as claimed: once a worker has gone past an item whose insert returned
\* an error, it has printed a line for that item.
C15_AsClaimed ==
    \A a \in attempts :
        (a.kind # "ok" /\ worker[a.w].i > a.i) =>
            \E l \in stdout : l.w = a.w /\ l.arg = a.i

\* C16 as claimed: in a Select or Delete invocation no dataset is generated,
\* nothing is partitioned and no worker is spawned.
C16_AsClaimed ==
    command # "Insert" =>
        /\ users = <<>>
        /\ batch_users = <<>>
        /\ \A w \in 1..MaxWorkers : worker[w] = IdleWorker

\* C17: under fair scheduling, an insertion with n_workers >= 1 that has
\* reached run_insertion leads, unless a worker panics, to a state where
\* every worker has ended and run_insertion has returned success.
C17_Terminates ==
    (pc = "partition" /\ n_workers >= 1) ~>
        \/ Panicked # {}
        \/ /\ ri_result = "ok"
           /\ joined = n_workers
           /\ \A w \in 1..n_workers : worker[w].st = "done"

C17_Witness ==
    /\ ri_result = "ok"
    /\ n_workers = 2
    /\ joined = 2
    /\ Len(users) = 2
    /\ \A w \in 1..2 : worker[w].st = "done"
    /\ \E a \in attempts : a.kind = "constraint"
    /\ \E a \in attempts : a.kind = "ok"

\* the calls of caller w that wait in a channel or run on a connection thread
QueuedBy(w) ==
    {p \in ConnIds \X (1..(MaxWorkers + 1)) :
        p[2] <= Len(queue[p[1]]) /\ queue[p[1]][p[2]].from = w}

RunningFor(w) == {c \in ConnIds : executing[c].from = w}

\* calls of w not yet answered to it: queued, running, or replied and not yet
\* taken by the worker
Outstanding(w) ==
    Cardinality(QueuedBy(w)) + Cardinality(RunningFor(w))
        + (IF reply[w] = NoReply THEN 0 ELSE 1)

\* the id of the row inserted in this run under the name
IdOf(name) == (CHOOSE r \in table \ table0 : r.name = name).id

C19_LowestFaultSurfaced ==
    /\ (pc = "join" /\ joined < handles
            /\ worker[joined + 1].st \notin {"done", "panicked"})
        => ri_result = "none"
    /\ ri_result = "err" =>
        /\ main_error.kind = "task"
        /\ main_error.w \in Panicked
        /\ \A w \in Panicked : main_error.w <= w
        /\ joined = main_error.w - 1
        /\ \A w \in 1..joined : worker[w].st = "done" /\ worker[w].res = "ok"
        /\ pc \in {"returned", "exited"}

\* both workers faulted, the second one after an insert that landed before
\* the first one's, and the first one's fault is what is returned
C19_Witness ==
    /\ ri_result = "err"
    /\ main_error = Error("task", 1)
    /\ Panicked = {1, 2}
    /\ joined = 0
    /\ \E a, b \in attempts :
        /\ a.w = 1 /\ b.w = 2
        /\ a.kind = "ok" /\ b.kind = "ok"
        /\ IdOf(b.name) < IdOf(a.name)

====
